---- MODULE Spec2Model ----
(***************************************************************************)
(* Model of rust/src/ffi/base64.rs: the C entry points of the Base64       *)
(* codec (SCBase64Decode, SCBase64EncodeWithMode, SCBase64Encode,          *)
(* SCBase64EncodeBufferSize) and of a caller that prepares buffers, calls  *)
(* them and looks at what came back.                                       *)
(*                                                                         *)
(* Bytes are integers 0..255 and text is written as ASCII codes.  Lengths  *)
(* and counts are the program's: usize and c_ulong of 64 bits, u32 of 32.  *)
(* They pass what TLC's integers hold, so a number is kept as five limbs   *)
(* of 16 bits, lowest first, and the arithmetic of the code is done on the *)
(* limbs.  A buffer too long to write out is kept as a pattern, the number *)
(* of times it repeats, and the bytes that follow the repetitions.         *)
(***************************************************************************)
EXTENDS Integers, Sequences, FiniteSets, TLC

\* ------------------------------------------------------------------ bounds

\* Longest byte string enumerated exhaustively as an encoder input.
MaxEncLen == 3
\* Longest character string enumerated exhaustively as a decoder input.
MaxDecLen == 4
\* How many out-of-alphabet bytes the caller inserts into a text it decoded.
MaxIns == 2
\* How many bytes the caller appends to a text it decoded.
MaxApp == 1
\* Largest of the small lengths passed to SCBase64EncodeBufferSize alone.
MaxSizeLen == 40

\* ------------------------------------------------------- program constants

SC_BASE64_OK == 0
SC_BASE64_INVALID_ARG == 1
SC_BASE64_OVERFLOW == 2

\* Width in bits of u32, the type of num_decoded and of SCBase64Decode's
\* result.
U32_BITS == 32

\* Width in bits of c_ulong (and of usize) on the 64-bit Unix targets.
ULONG_BITS == 64

Modes == {"SCBase64ModeRFC2045", "SCBase64ModeStrict", "SCBase64ModeRFC4648",
          "SCBase64ModeNoPad", "SCBase64ModePadOpt"}

\* The padding character '='.
PAD_BYTE == 61

\* ------------------------------------------------------------ wide numbers

\* A limb holds 16 bits.
LIMB == 2^16

\* The limbs of a number, lowest first: 80 bits, enough for every value the
\* code and the claims compute from a c_ulong.
Limbs == 1..5

\* The number n (an integer of TLC, below 2^31) as limbs.
Wide(n) == <<n % LIMB, n \div LIMB, 0, 0, 0>>

Zero == Wide(0)

One == Wide(1)

\* 2^k, k < 80.
Pow2(k) == [i \in Limbs |-> IF i = (k \div 16) + 1 THEN 2^(k % 16) ELSE 0]

\* The integer of TLC that a (below 2^31) is.
ToInt(a) == a[1] + LIMB * a[2]

\* a + b.
WAdd(a, b) ==
    LET s1 == a[1] + b[1]
        s2 == a[2] + b[2] + (s1 \div LIMB)
        s3 == a[3] + b[3] + (s2 \div LIMB)
        s4 == a[4] + b[4] + (s3 \div LIMB)
        s5 == a[5] + b[5] + (s4 \div LIMB)
    IN  <<s1 % LIMB, s2 % LIMB, s3 % LIMB, s4 % LIMB, s5 % LIMB>>

\* a - b, for a >= b.
WSub(a, b) ==
    LET d1 == a[1] - b[1]
        d2 == a[2] - b[2] - (IF d1 < 0 THEN 1 ELSE 0)
        d3 == a[3] - b[3] - (IF d2 < 0 THEN 1 ELSE 0)
        d4 == a[4] - b[4] - (IF d3 < 0 THEN 1 ELSE 0)
        d5 == a[5] - b[5] - (IF d4 < 0 THEN 1 ELSE 0)
    IN  <<(d1 + LIMB) % LIMB, (d2 + LIMB) % LIMB, (d3 + LIMB) % LIMB,
          (d4 + LIMB) % LIMB, (d5 + LIMB) % LIMB>>

\* a * k, for an integer k below 2^15.
WMulSmall(a, k) ==
    LET p1 == a[1] * k
        p2 == a[2] * k + (p1 \div LIMB)
        p3 == a[3] * k + (p2 \div LIMB)
        p4 == a[4] * k + (p3 \div LIMB)
        p5 == a[5] * k + (p4 \div LIMB)
    IN  <<p1 % LIMB, p2 % LIMB, p3 % LIMB, p4 % LIMB, p5 % LIMB>>

\* a / d rounded down, for an integer d in 1..2^15.
WDivSmall(a, d) ==
    LET t5 == a[5]
        t4 == (t5 % d) * LIMB + a[4]
        t3 == (t4 % d) * LIMB + a[3]
        t2 == (t3 % d) * LIMB + a[2]
        t1 == (t2 % d) * LIMB + a[1]
    IN  <<t1 \div d, t2 \div d, t3 \div d, t4 \div d, t5 \div d>>

\* a modulo d, an integer.
WModSmall(a, d) == ToInt(WSub(a, WMulSmall(WDivSmall(a, d), d)))

\* a < b.
WLess(a, b) ==
    \E i \in Limbs : a[i] < b[i] /\ \A j \in Limbs : j > i => a[j] = b[j]

\* a <= b.
WLeq(a, b) == ~WLess(b, a)

\* The low bits bits of a (bits a multiple of 16): what a cast to an
\* unsigned type of that width keeps.
LowBits(a, bits) == [i \in Limbs |-> IF 16 * i <= bits THEN a[i] ELSE 0]

\* v as u32.
AsU32(v) == LowBits(v, U32_BITS)

\* v as c_ulong.
AsUlong(v) == LowBits(v, ULONG_BITS)

\* Largest value of u32.
U32_MAX == WSub(Pow2(U32_BITS), One)

\* Largest value of c_ulong.
ULONG_MAX == WSub(Pow2(ULONG_BITS), One)

\* Largest value of isize, the most bytes a slice may span; usize is as wide
\* as c_ulong.
ISIZE_MAX == WSub(Pow2(ULONG_BITS - 1), One)

\* ------------------------------------------------------------------ buffers

\* The buffer of the bytes s.
Explicit(s) == [pat |-> <<>>, reps |-> Zero, tail |-> s]

\* The buffer of pattern p repeated n times (n wide) and then the bytes t.
Run(p, n, t) == [pat |-> p, reps |-> n, tail |-> t]

\* Whether b is written out in full.
IsExplicit(b) == b.reps = Zero

\* The length of b in bytes.
BufLen(b) == WAdd(WMulSmall(b.reps, Len(b.pat)), Wide(Len(b.tail)))

\* The byte values that occur in b.
Cells(b) ==
    {b.pat[i] : i \in 1..Len(b.pat)} \cup {b.tail[i] : i \in 1..Len(b.tail)}

\* b with every whole copy of the pattern at the front of its tail counted
\* as a repetition, and written out when nothing repeats.
RECURSIVE Norm(_)
Norm(b) ==
    IF b.pat = <<>> \/ b.reps = Zero THEN Explicit(b.tail)
    ELSE IF Len(b.tail) >= Len(b.pat) /\ SubSeq(b.tail, 1, Len(b.pat)) = b.pat
    THEN Norm(Run(b.pat, WAdd(b.reps, One),
                  SubSeq(b.tail, Len(b.pat) + 1, Len(b.tail))))
    ELSE b

\* The first n bytes of b, n reaching into its tail.
Prefix(b, n) ==
    Run(b.pat, b.reps,
        SubSeq(b.tail, 1, ToInt(WSub(n, WMulSmall(b.reps, Len(b.pat))))))

\* b followed by byte c.
AppendByte(b, c) == Run(b.pat, b.reps, Append(b.tail, c))

\* ----------------------------------------------------------------- helpers

Min(a, b) == IF a < b THEN a ELSE b

Max(a, b) == IF a > b THEN a ELSE b

\* n cells holding v.
Filled(n, v) == [i \in 1..n |-> v]

\* s with byte c inserted after its first pos bytes.
InsertAt(s, pos, c) == SubSeq(s, 1, pos) \o <<c>> \o SubSeq(s, pos + 1, Len(s))

\* ---------------------------------------------------- the standard alphabet

\* The character of a six-bit value: A-Z, a-z, 0-9, '+', '/'.
EncChar(v) ==
    IF v < 26 THEN 65 + v
    ELSE IF v < 52 THEN 97 + (v - 26)
    ELSE IF v < 62 THEN 48 + (v - 52)
    ELSE IF v = 62 THEN 43 ELSE 47

\* Whether byte c is one of the 64 characters of the alphabet.
InAlphabet(c) ==
    \/ c \in 65..90
    \/ c \in 97..122
    \/ c \in 48..57
    \/ c = 43
    \/ c = 47

\* The six-bit value of a character of the alphabet.
DecVal(c) ==
    IF c \in 65..90 THEN c - 65
    ELSE IF c \in 97..122 THEN c - 97 + 26
    ELSE IF c \in 48..57 THEN c - 48 + 52
    ELSE IF c = 43 THEN 62 ELSE 63

\* ------------------------------------------------------------------ encoder

\* Byte i of b, zero past its end.
ByteOrZero(b, i) == IF i <= Len(b) THEN b[i] ELSE 0

\* The k-th (from 0) six-bit group of the bits of b, zero-filled at the end.
Sextet(b, k) ==
    LET g == k \div 4
        b1 == ByteOrZero(b, 3 * g + 1)
        b2 == ByteOrZero(b, 3 * g + 2)
        b3 == ByteOrZero(b, 3 * g + 3)
    IN  CASE k % 4 = 0 -> b1 \div 4
          [] k % 4 = 1 -> (b1 % 4) * 16 + (b2 \div 16)
          [] k % 4 = 2 -> (b2 % 16) * 4 + (b3 \div 64)
          [] OTHER     -> b3 % 64

\* Engine::encode of the base64 crate over the standard alphabet: STANDARD
\* (padded = TRUE) pads the text with '=' to a multiple of four characters,
\* STANDARD_NO_PAD (padded = FALSE) does not.
EngineEncode(b, padded) ==
    LET nSext == (8 * Len(b) + 5) \div 6
        nText == IF padded THEN 4 * ((Len(b) + 2) \div 3) ELSE nSext
    IN  [i \in 1..nText |-> IF i <= nSext THEN EncChar(Sextet(b, i - 1)) ELSE PAD_BYTE]

\* ------------------------------------------- the canonical (crate) decoder

\* The first nbytes bytes that the six-bit values vals spell out.
MorselBytes(vals, nbytes) ==
    LET v(k) == IF k <= Len(vals) THEN vals[k] ELSE 0
    IN  [j \in 1..nbytes |->
            LET g == (j - 1) \div 3
            IN  CASE (j - 1) % 3 = 0 -> v(4 * g + 1) * 4 + (v(4 * g + 2) \div 16)
                  [] (j - 1) % 3 = 1 -> (v(4 * g + 2) % 16) * 16 + (v(4 * g + 3) \div 4)
                  [] OTHER           -> (v(4 * g + 3) % 4) * 64 + v(4 * g + 4)]

\* The six-bit values of the first k characters of text.
Morsels(text, k) == [i \in 1..k |-> DecVal(text[i])]

\* Whether text ends one character past a whole number of quads with a byte
\* that is neither of the alphabet nor padding: decode_slice then fails
\* before it stores anything.
TrailingInvalid(text) ==
    /\ Len(text) % 4 = 1
    /\ text[Len(text)] # PAD_BYTE
    /\ ~InAlphabet(text[Len(text)])

\* Engine::decode_slice of the base64 crate (0.22) over the standard
\* alphabet, into a slice as long as the input.  padMode is "canonical"
\* (STANDARD), "none" (STANDARD_NO_PAD) or "indifferent" (PadOpt's engine).
\* The result tells whether it returned Ok, the length it returned, and the
\* bytes it had stored at the front of the slice when it returned: the quads
\* before the last one are decoded and stored in order (eight characters at
\* a time inside each whole run of 32, four at a time after), the last one
\* to four characters are checked for padding, length and trailing bits and
\* stored only if they pass.
EngineDecode(text, padMode) ==
    LET n == Len(text)
        rem == n % 4
        ntLen == IF n = 0 THEN 0 ELSE n - (IF rem = 0 THEN 4 ELSE rem)
        badNt == {i \in 1..ntLen : ~InAlphabet(text[i])}
        firstBad == CHOOSE i \in badNt : \A j \in badNt : i <= j
        unrolled == ntLen - (ntLen % 32)
        unitStart ==
            IF firstBad - 1 < unrolled
            THEN ((firstBad - 1) \div 8) * 8
            ELSE ((firstBad - 1) \div 4) * 4
        suf == SubSeq(text, ntLen + 1, n)
        pads == {i \in 1..Len(suf) : suf[i] = PAD_BYTE}
        firstPad ==
            IF pads = {} THEN Len(suf) + 1
            ELSE CHOOSE i \in pads : \A j \in pads : i <= j
        m == firstPad - 1
        sufOk ==
            /\ m >= 2
            /\ \A i \in 1..m : InAlphabet(suf[i])
            /\ \A i \in firstPad..Len(suf) : suf[i] = PAD_BYTE
            /\ padMode = "canonical" => (Cardinality(pads) + m) % 4 = 0
            /\ padMode = "none" => pads = {}
            /\ m = 2 => DecVal(suf[2]) % 16 = 0
            /\ m = 3 => DecVal(suf[3]) % 4 = 0
    IN  IF n = 0 THEN [ok |-> TRUE, len |-> 0, stored |-> <<>>]
        ELSE IF TrailingInvalid(text) THEN [ok |-> FALSE, len |-> 0, stored |-> <<>>]
        ELSE IF badNt # {}
        THEN [ok |-> FALSE, len |-> 0,
              stored |-> MorselBytes(Morsels(text, unitStart), (unitStart \div 4) * 3)]
        ELSE IF ~sufOk
        THEN [ok |-> FALSE, len |-> 0,
              stored |-> MorselBytes(Morsels(text, ntLen), (ntLen \div 4) * 3)]
        ELSE LET total == (ntLen \div 4) * 3 + ((m * 6) \div 8)
             IN  [ok |-> TRUE, len |-> total,
                  stored |-> MorselBytes(Morsels(text, ntLen + m), total)]

\* ------------------------------------------------ the two custom dialects

\* Whether byte c takes a place in the accumulation window of the custom
\* dialects: a character of the alphabet, or the padding character.
IsSlot(c) == InAlphabet(c) \/ c = PAD_BYTE

\* The six-bit values of window w, a padding character holding 0.
WindowVals(w) == [i \in 1..Len(w) |-> IF w[i] = PAD_BYTE THEN 0 ELSE DecVal(w[i])]

\* The number of padding characters in window w.
WindowPads(w) == Cardinality({i \in 1..Len(w) : w[i] = PAD_BYTE})

\* What the full window g (from 1) of slots emits: three bytes, less one for
\* each padding character in it.
GroupBytes(slots, g) ==
    LET w == SubSeq(slots, 4 * g - 3, 4 * g)
    IN  MorselBytes(WindowVals(w), 3 - Min(WindowPads(w), 3))

\* What the full windows lo..hi of slots emit, in order.
RECURSIVE EmitGroups(_, _, _)
EmitGroups(slots, lo, hi) ==
    IF lo > hi THEN <<>>
    ELSE IF lo = hi THEN GroupBytes(slots, lo)
    ELSE LET mid == (lo + hi) \div 2
         IN  EmitGroups(slots, lo, mid) \o EmitGroups(slots, mid + 1, hi)

\* The decoding loop of the two custom dialects.  Every byte of input is
\* classified: a character of the alphabet or a padding character takes the
\* next place of a four-character window, and a full window emits its bytes
\* and empties; any other byte is passed over in the skip dialect and ends
\* the loop in the stop dialect.  A window left with k < 4 characters is
\* flushed when the loop ended on a byte outside the alphabet: its k
\* characters give the k - 1 bytes they hold, less one for each padding
\* character among them.  Whether a window left at the end of the input is
\* flushed too is flushAtEnd, which the interface leaves open: both outcomes
\* are modelled.
DecodeLoop(input, skip, flushAtEnd) ==
    LET invalid == {i \in 1..Len(input) : ~IsSlot(input[i])}
        halted == ~skip /\ invalid # {}
        stopAt == CHOOSE i \in invalid : \A j \in invalid : i <= j
        slots == IF skip THEN SelectSeq(input, IsSlot)
                 ELSE IF halted THEN SubSeq(input, 1, stopAt - 1)
                 ELSE input
        nFull == Len(slots) \div 4
        left == SubSeq(slots, 4 * nFull + 1, Len(slots))
    IN  EmitGroups(slots, 1, nFull)
            \o (IF (halted \/ flushAtEnd) /\ Len(left) >= 2
                THEN MorselBytes(WindowVals(left),
                                 Max(0, Len(left) - 1 - WindowPads(left)))
                ELSE <<>>)

\* ---------------------------------------------------- the codecs on buffers

\* Engine::encode on a buffer.  The pattern of a long input is whole groups
\* of three bytes: every repetition encodes to the same characters, with no
\* padding, and the tail encodes as the end of the input.
EncodeBuf(b, padded) ==
    Run(EngineEncode(b.pat, FALSE),
        IF b.pat = <<>> THEN Zero ELSE b.reps,
        EngineEncode(b.tail, padded))

\* The bytes that pat, whole quads of characters of the alphabet, decodes to.
QuadBytes(pat) == MorselBytes(Morsels(pat, Len(pat)), 3 * (Len(pat) \div 4))

\* What decode_slice returns and has stored when the input is reps
\* repetitions of characters that decode to head and then an end that
\* decodes as last: the length counts every repetition, and the bytes of
\* the repetitions are stored before those of the end.
SliceOutcome(head, reps, last) ==
    [ok |-> last.ok,
     len |-> IF last.ok THEN WAdd(WMulSmall(reps, Len(head)), Wide(last.len))
             ELSE Zero,
     stored |-> Norm(Run(head, reps, last.stored))]

\* Engine::decode_slice on a buffer, into a slice as long as the buffer.  The
\* pattern of a long text is whole quads and its tail is at most its last
\* quad.  With a pattern of the alphabet every repetition decodes to the same
\* bytes, and the last repetition and the tail decide as the end of the
\* input does.  With a byte outside the alphabet in the pattern, decoding
\* fails in the first repetition, in the part of the input taken eight
\* characters at a time.
DecodeSliceBuf(t, padMode) ==
    IF IsExplicit(t)
    THEN SliceOutcome(<<>>, Zero, EngineDecode(t.tail, padMode))
    ELSE LET bad == {i \in 1..Len(t.pat) : ~InAlphabet(t.pat[i])}
             firstBad == CHOOSE i \in bad : \A j \in bad : i <= j
             unitStart == ((firstBad - 1) \div 8) * 8
         IN  IF TrailingInvalid(t.pat \o t.tail)
             THEN [ok |-> FALSE, len |-> Zero, stored |-> Explicit(<<>>)]
             ELSE IF bad # {}
             THEN [ok |-> FALSE, len |-> Zero,
                   stored |-> Explicit(MorselBytes(Morsels(t.pat, unitStart),
                                                   (unitStart \div 4) * 3))]
             ELSE SliceOutcome(QuadBytes(t.pat), WSub(t.reps, One),
                               EngineDecode(t.pat \o t.tail, padMode))

\* The decoding loop of the custom dialects on a buffer.  The pattern of a
\* long text is whole windows (every byte of it takes a place) or holds no
\* byte that takes a place: the windows of every repetition emit the same
\* bytes, or the repetitions are passed over in the skip dialect and end the
\* loop at their first byte in the stop dialect.
DecodeLoopBuf(t, skip, flushAtEnd) ==
    IF IsExplicit(t) THEN Explicit(DecodeLoop(t.tail, skip, flushAtEnd))
    ELSE IF \A i \in 1..Len(t.pat) : IsSlot(t.pat[i])
    THEN Norm(Run(EmitGroups(t.pat, 1, Len(t.pat) \div 4), t.reps,
                  DecodeLoop(t.tail, skip, flushAtEnd)))
    ELSE IF skip THEN Explicit(DecodeLoop(t.tail, skip, flushAtEnd))
    ELSE Explicit(<<>>)

\* decode_rfc2045: bytes outside the alphabet are skipped.
decode_rfc2045(input, flushAtEnd) == DecodeLoopBuf(input, TRUE, flushAtEnd)

\* decode_rfc4648: the first byte outside the alphabet ends the decoding.
decode_rfc4648(input, flushAtEnd) == DecodeLoopBuf(input, FALSE, flushAtEnd)

\* ---------------------------------------------------------- SCBase64Decode

\* The outcome of one of the two custom decoders as SCBase64Decode uses it:
\* whether it returned Ok or Err, the function returns the count the decoder
\* left in num_decoded, a u32; d is what the decoder emitted.
CustomResult(d) == [num_decoded |-> AsU32(BufLen(d)), stored |-> d]

\* SliceResult with the fault of reporting on Err the bytes stored before it.
SliceResult_partial(r, len) ==
    [num_decoded |-> IF r.ok THEN AsU32(r.len) ELSE AsU32(BufLen(r.stored)),
     stored |-> r.stored]

\* The outcome of a decode_slice call as SCBase64Decode uses it, for an input
\* of len bytes: num_decoded takes decoded_len as u32 on Ok and keeps its
\* initial 0 on Err.
SliceResult(r, len) ==
    [num_decoded |-> IF r.ok THEN AsU32(r.len) ELSE Zero, stored |-> r.stored]

\* SCBase64Decode with the fault of handing each custom dialect to the
\* decoder of the other.
SCBase64Decode_swapped(inputNull, input, mode, flushAtEnd) ==
    IF inputNull \/ BufLen(input) = Zero
    THEN [num_decoded |-> Zero, stored |-> Explicit(<<>>)]
    ELSE CASE mode = "SCBase64ModeRFC2045" ->
                CustomResult(decode_rfc4648(input, flushAtEnd))
           [] mode = "SCBase64ModeRFC4648" ->
                CustomResult(decode_rfc2045(input, flushAtEnd))
           [] mode = "SCBase64ModeStrict" ->
                SliceResult(DecodeSliceBuf(input, "canonical"), BufLen(input))
           [] mode = "SCBase64ModeNoPad" ->
                SliceResult(DecodeSliceBuf(input, "none"), BufLen(input))
           [] mode = "SCBase64ModePadOpt" ->
                SliceResult(DecodeSliceBuf(input, "indifferent"), BufLen(input))

\* SCBase64Decode(input, len, mode, output): the count it returns and the
\* bytes it stored at the front of output.  input is the buffer of len bytes
\* at the pointer; inputNull: the pointer is null.
SCBase64Decode(inputNull, input, mode, flushAtEnd) ==
    IF inputNull \/ BufLen(input) = Zero
    THEN [num_decoded |-> Zero, stored |-> Explicit(<<>>)]
    ELSE CASE mode = "SCBase64ModeRFC2045" ->
                CustomResult(decode_rfc2045(input, flushAtEnd))
           [] mode = "SCBase64ModeRFC4648" ->
                CustomResult(decode_rfc4648(input, flushAtEnd))
           [] mode = "SCBase64ModeStrict" ->
                SliceResult(DecodeSliceBuf(input, "canonical"), BufLen(input))
           [] mode = "SCBase64ModeNoPad" ->
                SliceResult(DecodeSliceBuf(input, "none"), BufLen(input))
           [] mode = "SCBase64ModePadOpt" ->
                SliceResult(DecodeSliceBuf(input, "indifferent"), BufLen(input))

\* debug_validate_bug_on!(num_decoded >= len as u32): the condition of the
\* assertion every return path after the length check passes through.  len
\* is a usize and the comparison is with its low 32 bits.
BugOn(num_decoded, len) == WLeq(AsU32(len), num_decoded)

\* --------------------------------------------------- SCBase64EncodeWithMode

\* The cells of an output buffer that hold something, counted from offset 0,
\* after data is copied to its front; buf is what they were before.  A
\* buffer as the caller allocated it holds nothing.
WriteAt0(buf, data) ==
    IF WLeq(BufLen(buf), BufLen(data)) THEN data
    ELSE Explicit([i \in 1..Len(buf.tail) |->
                      IF i <= Len(data.tail) THEN data.tail[i] ELSE buf.tail[i]])

\* SCBase64EncodeWithMode with the fault of leaving the sentinel out of the
\* capacity check.
SCBase64EncodeWithMode_off_by_one(nullArg, input, output, output_len, mode) ==
    IF nullArg # "none"
    THEN [ret |-> SC_BASE64_INVALID_ARG, output |-> output,
          output_len |-> output_len, abort |-> FALSE]
    ELSE LET encoded == EncodeBuf(input, mode # "SCBase64ModeNoPad")
         IN  IF WLess(output_len, BufLen(encoded))
             THEN [ret |-> SC_BASE64_OVERFLOW, output |-> output,
                   output_len |-> output_len, abort |-> FALSE]
             ELSE [ret |-> SC_BASE64_OK,
                   output |-> WriteAt0(output, AppendByte(encoded, 0)),
                   output_len |-> AsUlong(BufLen(encoded)),
                   abort |-> WLess(ISIZE_MAX, output_len)]

\* SCBase64EncodeWithMode with the fault of counting the sentinel in the
\* length it reports.
SCBase64EncodeWithMode_counts_sentinel(nullArg, input, output, output_len, mode) ==
    IF nullArg # "none"
    THEN [ret |-> SC_BASE64_INVALID_ARG, output |-> output,
          output_len |-> output_len, abort |-> FALSE]
    ELSE LET encoded == EncodeBuf(input, mode # "SCBase64ModeNoPad")
         IN  IF WLess(output_len, WAdd(BufLen(encoded), One))
             THEN [ret |-> SC_BASE64_OVERFLOW, output |-> output,
                   output_len |-> output_len, abort |-> FALSE]
             ELSE [ret |-> SC_BASE64_OK,
                   output |-> WriteAt0(output, AppendByte(encoded, 0)),
                   output_len |-> AsUlong(WAdd(BufLen(encoded), One)),
                   abort |-> WLess(ISIZE_MAX, output_len)]

\* SCBase64EncodeWithMode(input, input_len, output, output_len, mode): the
\* status it returns, the cells of output that hold something and
\* *output_len as it leaves them.  input is the buffer of input_len bytes at
\* the pointer; nullArg names the null pointer among its arguments, or is
\* "none".  abort: the call reached from_raw_parts_mut with a length above
\* isize::MAX, which is undefined: a build with debug assertions aborts
\* there, before anything is written, and the rest of the record is what a
\* build without them returns.
SCBase64EncodeWithMode(nullArg, input, output, output_len, mode) ==
    IF nullArg # "none"
    THEN [ret |-> SC_BASE64_INVALID_ARG, output |-> output,
          output_len |-> output_len, abort |-> FALSE]
    ELSE LET encoded == EncodeBuf(input, mode # "SCBase64ModeNoPad")
         IN  IF WLess(output_len, WAdd(BufLen(encoded), One))
             THEN [ret |-> SC_BASE64_OVERFLOW, output |-> output,
                   output_len |-> output_len, abort |-> FALSE]
             ELSE [ret |-> SC_BASE64_OK,
                   output |-> WriteAt0(output, AppendByte(encoded, 0)),
                   output_len |-> AsUlong(BufLen(encoded)),
                   abort |-> WLess(ISIZE_MAX, output_len)]

\* SCBase64Encode: SCBase64EncodeWithMode in SCBase64ModeStrict.
SCBase64Encode(nullArg, input, output, output_len) ==
    SCBase64EncodeWithMode(nullArg, input, output, output_len, "SCBase64ModeStrict")

\* ------------------------------------------------- SCBase64EncodeBufferSize

\* SCBase64EncodeBufferSize(len) = (4 * ((len) + 2) / 3) + 1 in c_ulong
\* arithmetic: value is what wrapping arithmetic returns, overflow whether
\* len + 2 or the product by 4 passed ULONG_MAX on the way (the quotient
\* plus 1 cannot).
SCBase64EncodeBufferSize(len) ==
    LET sum == WAdd(len, Wide(2))
        wsum == AsUlong(sum)
        prod == WMulSmall(wsum, 4)
        wprod == AsUlong(prod)
    IN  [value |-> WAdd(WDivSmall(wprod, 3), One),
         overflow |-> WLess(ULONG_MAX, sum) \/ WLess(ULONG_MAX, prod)]

\* ------------------------------------------------------ the caller's inputs

\* "foobar", whose prefixes are the test vectors of the repository.
Foobar == <<102, 111, 111, 98, 97, 114>>

\* "", "f", "fo", "foo", "foob", "fooba", "foobar".
Vectors == {SubSeq(Foobar, 1, k) : k \in 0..Len(Foobar)}

\* Their Base64 texts: "", "Zg==", "Zm8=", "Zm9v", "Zm9vYg==", "Zm9vYmE=",
\* "Zm9vYmFy" (VectorTexts[k + 1] is the text of the k-byte prefix).
VectorTexts ==
    << <<>>,
       <<90, 103, 61, 61>>,
       <<90, 109, 56, 61>>,
       <<90, 109, 57, 118>>,
       <<90, 109, 57, 118, 89, 103, 61, 61>>,
       <<90, 109, 57, 118, 89, 109, 69, 61>>,
       <<90, 109, 57, 118, 89, 109, 70, 121>> >>

\* "Zm 9v Ym Fy", "Zm$9vYm.Fy", "Zm 9v", "Zm$9v", "Zm9v Zg==".
ZmSpaced == <<90, 109, 32, 57, 118, 32, 89, 109, 32, 70, 121>>

ZmDollar == <<90, 109, 36, 57, 118, 89, 109, 46, 70, 121>>

ZmSpace9v == <<90, 109, 32, 57, 118>>

ZmDollar9v == <<90, 109, 36, 57, 118>>

FooSpaceZg == <<90, 109, 57, 118, 32, 90, 103, 61, 61>>

\* Bytes the enumerated encoder inputs are made of: 0, 'f', 255.
EncBytes == {0, 102, 255}

\* Characters the enumerated decoder inputs are made of: 'Z', 'm', 'g', '='
\* and ' '.
DecChars == {90, 109, 103, 61, 32}

\* Out-of-alphabet bytes the caller inserts into a text: ' ', '$'.
InsChars == {32, 36}

\* Bytes the caller appends to a text: 'Z', '=', ' '.
AppChars == {90, 61, 32}

SeqsUpTo(S, n) == UNION {[1..k -> S] : k \in 0..n}

\* Long encoder inputs, zero-filled: 3 * 2^30 bytes, whose text has 2^32
\* characters, and 2^32, 2^32 + 1 and 2^32 + 2 bytes.
LongInputs ==
    {Run(<<0, 0, 0>>, Pow2(30), <<>>),
     Run(<<0, 0, 0>>, Wide(1431655765), <<0>>),
     Run(<<0, 0, 0>>, Wide(1431655765), <<0, 0>>),
     Run(<<0, 0, 0>>, Wide(1431655766), <<>>)}

\* Encoder inputs: every short byte string, the vectors, the 100 bytes of
\* the overflow example, and the long inputs.
EncInputs ==
    {Explicit(b) : b \in SeqsUpTo(EncBytes, MaxEncLen) \cup Vectors \cup {Filled(100, 0)}}
        \cup LongInputs

\* Long decoder inputs: 2^32 spaces; 2^32 padding characters; 'Q' 2^32,
\* 2^32 + 4 and 5726623064 times; 'Q' 2^32 times followed by "QQ", by "Q="
\* and by "Q ".
LongTexts ==
    {Run(<<32, 32, 32, 32>>, Pow2(30), <<>>),
     Run(<<61, 61, 61, 61>>, Pow2(30), <<>>),
     Run(<<81, 81, 81, 81>>, Pow2(30), <<>>),
     Run(<<81, 81, 81, 81>>, WAdd(Pow2(30), One), <<>>),
     Run(<<81, 81, 81, 81>>, Wide(1431655766), <<>>),
     Run(<<81, 81, 81, 81>>, Pow2(30), <<81, 81>>),
     Run(<<81, 81, 81, 81>>, Pow2(30), <<81, 61>>),
     Run(<<81, 81, 81, 81>>, Pow2(30), <<81, 32>>)}

\* Decoder inputs: every short character string, the padded and the unpadded
\* text of every vector and of every byte string of at most one group of
\* three bytes, the spaced vectors, and the long texts.
DecInputs ==
    {Explicit(t) :
        t \in SeqsUpTo(DecChars, MaxDecLen)
                \cup {EngineEncode(b, p) :
                        b \in SeqsUpTo(EncBytes, 3) \cup Vectors, p \in BOOLEAN}
                \cup {ZmSpaced, ZmDollar, ZmSpace9v, ZmDollar9v, FooSpaceZg}}
        \cup LongTexts

\* Lengths passed to SCBase64EncodeBufferSize with no buffer behind them:
\* the small ones, and those around 2^30, 2^32, 2^62 and 2^64 (the last
\* below 2^64).
SizeLens ==
    {Wide(n) : n \in 0..MaxSizeLen}
        \cup {WAdd(WSub(Pow2(k), Wide(3)), Wide(d)) : k \in {30, 32, 62}, d \in 0..5}
        \cup {WSub(Pow2(64), Wide(d)) : d \in 1..4}

\* The capacities a caller declares for an encoding of input: none, the
\* 10 bytes of the overflow example, and the lengths around the padded and
\* the unpadded encoded length.  A capacity is the length of a buffer the
\* caller allocated, and no allocation is longer than isize::MAX.
CapChoices(input) ==
    LET lens == {BufLen(EncodeBuf(input, p)) : p \in BOOLEAN}
    IN  {Zero, Wide(10)}
            \cup {WAdd(n, Wide(d)) : n \in lens, d \in 0..2}
            \cup {WSub(n, One) : n \in lens \ {Zero}}

CustomModes == {"SCBase64ModeRFC2045", "SCBase64ModeRFC4648"}

DelegatedModes == {"SCBase64ModeStrict", "SCBase64ModeNoPad", "SCBase64ModePadOpt"}

\* Whether the end-of-input flush of the custom decoders matters to mode.
FlushChoices(m) == IF m \in CustomModes THEN BOOLEAN ELSE {FALSE}

\* The custom decoders count in a u32, and what they do once the count
\* passes it is not in rust/src/ffi/base64.rs: a long text goes to them only
\* when its repetitions hold no character of the alphabet.
InReach(t, m) ==
    \/ m \in DelegatedModes
    \/ IsExplicit(t)
    \/ \A i \in 1..Len(t.pat) : ~IsSlot(t.pat[i])

\* A text the canonical strict decoder accepts.
Canonical(t) == EngineDecode(t, "canonical").ok

\* Whether t holds a byte that is neither of the alphabet nor padding.
HasInvalid(t) == \E i \in 1..Len(t) : ~InAlphabet(t[i]) /\ t[i] # PAD_BYTE

\* -------------------------------------------------------------------- state

VARIABLES
    pc,          \* where the caller is: enc_start, sized, encoded, roundtrip,
                 \* size_start, sized_only, dec_start, decoded, aborted
    entry,       \* the entry point called last
    input,       \* the encoder's input buffer
    len,         \* the length passed to SCBase64EncodeBufferSize
    mode,        \* the dialect passed to the encoder
    nullArg,     \* the null pointer among the arguments of the last call
    output,      \* the cells of the encoder's output buffer that hold something
    output_len,  \* *output_len
    cap,         \* the capacity the caller declared in *output_len
    ret,         \* the encoder's return code
    size,        \* what SCBase64EncodeBufferSize returned
    text,        \* the decoder's input buffer
    dmode,       \* the dialect passed to the decoder
    flushAtEnd,  \* the custom decoders' treatment of a partial last group
    decoded,     \* the cells of the decoder's output buffer that hold something
    count,       \* the count SCBase64Decode returned
    bug_on,      \* whether the decoder's assertion condition held
    base,        \* the caller's first decoding: text, count and bytes
    nIns,        \* bytes inserted into the text since
    nApp         \* bytes appended to the text since

vars == <<pc, entry, input, len, mode, nullArg, output, output_len, cap, ret,
          size, text, dmode, flushAtEnd, decoded, count, bug_on, base, nIns, nApp>>

encVars == <<input, len, mode, output, output_len, cap, ret, size>>

decVars == <<text, dmode, decoded, count, bug_on, base, nIns, nApp>>

NoBytes == Explicit(<<>>)

NoSize == [value |-> Zero, overflow |-> FALSE]

NoBase == [text |-> NoBytes, count |-> Zero, bytes |-> NoBytes]

Init ==
    /\ entry = "none"
    /\ nullArg = "none"
    /\ output = NoBytes
    /\ output_len = Zero
    /\ cap = Zero
    /\ ret = SC_BASE64_OK
    /\ size = NoSize
    /\ decoded = NoBytes
    /\ count = Zero
    /\ bug_on = FALSE
    /\ base = NoBase
    /\ nIns = 0
    /\ nApp = 0
    /\ \/ /\ pc = "enc_start"
          /\ input \in EncInputs
          /\ len = BufLen(input)
          /\ mode \in Modes
          /\ flushAtEnd \in FlushChoices(mode)
          /\ text = NoBytes
          /\ dmode = mode
       \/ /\ pc = "size_start"
          /\ input = NoBytes
          /\ len \in SizeLens
          /\ mode = "SCBase64ModeStrict"
          /\ flushAtEnd = FALSE
          /\ text = NoBytes
          /\ dmode = mode
       \/ /\ pc = "dec_start"
          /\ text \in DecInputs
          /\ dmode \in Modes
          /\ InReach(text, dmode)
          /\ flushAtEnd \in FlushChoices(dmode)
          /\ input = NoBytes
          /\ len = Zero
          /\ mode = dmode

\* ------------------------------------------------------------------ actions

\* The caller asks for the buffer size of a length: that of its input, or
\* one with no buffer behind it.  Where the arithmetic overflows, a build
\* with wrapping arithmetic returns the wrapped value and a build with
\* overflow checks panics.
EncodeBufferSizeCall ==
    /\ pc \in {"enc_start", "size_start"}
    /\ LET r == SCBase64EncodeBufferSize(len)
       IN  \/ /\ pc' = IF pc = "enc_start" THEN "sized" ELSE "sized_only"
              /\ size' = r
           \/ /\ r.overflow
              /\ pc' = "aborted"
              /\ size' = [value |-> Zero, overflow |-> TRUE]
    /\ entry' = "SCBase64EncodeBufferSize"
    /\ UNCHANGED <<input, len, mode, nullArg, output, output_len, cap, ret, flushAtEnd>>
    /\ UNCHANGED decVars

\* The caller allocates c bytes, declares them in *output_len and calls the
\* encoder (plain: through SCBase64Encode) with the pointer na null.  Where
\* the call is undefined it ends at "aborted", with nothing written and
\* nothing returned, or returns: both are modelled.
EncodeStep(plain, na, c) ==
    \E r \in {IF plain
              THEN SCBase64Encode(na, input, NoBytes, c)
              ELSE SCBase64EncodeWithMode(na, input, NoBytes, c, mode)} :
       \E aborts \in (IF r.abort THEN BOOLEAN ELSE {FALSE}) :
          /\ pc' = IF aborts THEN "aborted" ELSE "encoded"
          /\ entry' = IF plain THEN "SCBase64Encode" ELSE "SCBase64EncodeWithMode"
          /\ nullArg' = na
          /\ cap' = c
          /\ output' = IF aborts THEN NoBytes ELSE r.output
          /\ output_len' = IF aborts THEN c ELSE r.output_len
          /\ ret' = IF aborts THEN ret ELSE r.ret
          /\ UNCHANGED <<input, len, mode, size, flushAtEnd>>
          /\ UNCHANGED decVars

\* A call with a capacity of the caller's choosing.
EncodeWithModeCall ==
    /\ pc = "enc_start"
    /\ \E c \in CapChoices(input) :
          \E na \in IF c = Wide(10) THEN {"none", "input", "output", "output_len"}
                    ELSE {"none"} :
             EncodeStep(FALSE, na, c)

EncodeCall ==
    /\ pc = "enc_start"
    /\ mode = "SCBase64ModeStrict"
    /\ \E c \in CapChoices(input) :
          \E na \in IF c = Wide(10) THEN {"none", "input", "output", "output_len"}
                    ELSE {"none"} :
             EncodeStep(TRUE, na, c)

\* A call with the capacity SCBase64EncodeBufferSize returned.
EncodeSizedCall ==
    /\ pc = "sized"
    /\ \E plain \in IF mode = "SCBase64ModeStrict" THEN BOOLEAN ELSE {FALSE} :
          EncodeStep(plain, "none", size.value)

\* The caller passes text to the decoder with an output buffer as long as
\* the text (the pointer input null when inputNull).  When the condition of
\* the assertion holds, a build with debug-validate panics there and any
\* other build returns: the call ends at "aborted" or at returned.
DecodeStep(t, inputNull, returned) ==
    \E r \in {SCBase64Decode(inputNull, t, dmode, flushAtEnd)} :
       \E fires \in {~inputNull /\ BufLen(t) # Zero /\ BugOn(r.num_decoded, BufLen(t))} :
          /\ entry' = "SCBase64Decode"
          /\ pc' \in (IF fires THEN {returned, "aborted"} ELSE {returned})
          /\ nullArg' = IF inputNull THEN "input" ELSE "none"
          /\ text' = t
          /\ decoded' = r.stored
          /\ count' = r.num_decoded
          /\ bug_on' = fires
          /\ UNCHANGED <<dmode, flushAtEnd>>

\* The caller decodes the text the encoder left, in the dialect it encoded.
DecodeEncodedCall ==
    /\ pc = "encoded"
    /\ nullArg = "none"
    /\ ret = SC_BASE64_OK
    /\ InReach(Prefix(output, output_len), dmode)
    /\ DecodeStep(Prefix(output, output_len), FALSE, "roundtrip")
    /\ UNCHANGED <<base, nIns, nApp>>
    /\ UNCHANGED encVars

\* The caller decodes a text it received.
DecodeCall ==
    /\ pc = "dec_start"
    /\ \E inputNull \in BOOLEAN :
          /\ DecodeStep(text, inputNull, "decoded")
          /\ base' = [text |-> text, count |-> count', bytes |-> decoded']
    /\ UNCHANGED <<nIns, nApp>>
    /\ UNCHANGED encVars

\* The text was a canonical one, decoded in the skip dialect: it comes again
\* with one more byte outside the alphabet somewhere in it.
InsertAndDecodeCall ==
    /\ pc = "decoded"
    /\ nullArg = "none"
    /\ dmode = "SCBase64ModeRFC2045"
    /\ nApp = 0
    /\ nIns < MaxIns
    /\ IsExplicit(text)
    /\ Canonical(base.text.tail)
    /\ \E pos \in 0..Len(text.tail), c \in InsChars :
          DecodeStep(Explicit(InsertAt(text.tail, pos, c)), FALSE, "decoded")
    /\ nIns' = nIns + 1
    /\ UNCHANGED <<base, nApp>>
    /\ UNCHANGED encVars

\* The text held a byte outside the alphabet and was decoded in the stop
\* dialect: it comes again with one more byte at its end.
AppendAndDecodeCall ==
    /\ pc = "decoded"
    /\ nullArg = "none"
    /\ dmode = "SCBase64ModeRFC4648"
    /\ nIns = 0
    /\ nApp < MaxApp
    /\ IsExplicit(text)
    /\ HasInvalid(base.text.tail)
    /\ \E c \in AppChars : DecodeStep(AppendByte(text, c), FALSE, "decoded")
    /\ nApp' = nApp + 1
    /\ UNCHANGED <<base, nIns>>
    /\ UNCHANGED encVars

Next ==
    \/ EncodeBufferSizeCall
    \/ EncodeWithModeCall
    \/ EncodeCall
    \/ EncodeSizedCall
    \/ DecodeEncodedCall
    \/ DecodeCall
    \/ InsertAndDecodeCall
    \/ AppendAndDecodeCall

Spec == Init /\ [][Next]_vars

\* ------------------------------------------------------ what the claims use

\* The length of the Base64 text of n bytes: 4 * ceil(n / 3) padded,
\* ceil(4 * n / 3) unpadded.
EncodedLen(n, padded) ==
    IF padded THEN WMulSmall(WDivSmall(WAdd(n, Wide(2)), 3), 4)
    ELSE WDivSmall(WAdd(WMulSmall(n, 4), Wide(2)), 3)

\* ceil(n / 3) * 4 + 1.
ExactBufferSize(n) == WAdd(WMulSmall(WDivSmall(WAdd(n, Wide(2)), 3), 4), One)

\* The decoder has returned from a call with a non-null input.
DecodeReturned ==
    entry = "SCBase64Decode" /\ nullArg = "none" /\ pc # "aborted"

\* The encoder has returned from a call with no null pointer.
EncodeReturned == pc = "encoded" /\ nullArg = "none"

\* SCBase64EncodeBufferSize has returned.
SizeReturned == pc \in {"sized", "sized_only"}

\* The bytes the decoder reported, of a text written out in full.
Reported == SubSeq(decoded.tail, 1, ToInt(count))

\* The text the encoder reported.
EncodedText == Prefix(output, output_len)

\* No cell of the decoder's output past the first n holds something.
UntouchedAfter(n) == WLeq(BufLen(decoded), n)

\* The first byte of t outside the alphabet and padding (Len(t) + 1 if none).
FirstInvalid(t) ==
    IF HasInvalid(t)
    THEN CHOOSE i \in 1..Len(t) :
            /\ ~IsSlot(t[i])
            /\ \A j \in 1..(i - 1) : IsSlot(t[j])
    ELSE Len(t) + 1

\* The padding mode of the engine SCBase64Decode builds for dialect m.
PadModeOf(m) ==
    CASE m = "SCBase64ModeStrict" -> "canonical"
      [] m = "SCBase64ModeNoPad" -> "none"
      [] OTHER -> "indifferent"

\* How many bytes of b, counted wide, satisfy Test.
CountOf(b, Test(_)) ==
    WAdd(WMulSmall(b.reps, Cardinality({i \in 1..Len(b.pat) : Test(b.pat[i])})),
         Wide(Cardinality({i \in 1..Len(b.tail) : Test(b.tail[i])})))

\* ------------------------------------------------------------------- claims

\* C1: round trip.  Text encoded in SCBase64ModeStrict and decoded in
\* SCBase64ModeStrict gives back the count and the bytes of the input and
\* writes nothing after them; a buffer of the encoded length plus one is
\* large enough for the encoding; and the vectors "", "f", ..., "foobar"
\* encode to "", "Zg==", ..., "Zm9vYmFy".
C1_RoundTrip ==
    /\ (pc = "roundtrip" /\ mode = "SCBase64ModeStrict")
          => /\ count = BufLen(input)
             /\ decoded = input
    /\ (EncodeReturned /\ mode = "SCBase64ModeStrict"
            /\ WLess(EncodedLen(BufLen(input), TRUE), cap))
          => ret = SC_BASE64_OK
    /\ (EncodeReturned /\ mode = "SCBase64ModeStrict" /\ ret = SC_BASE64_OK)
          => \A k \in 0..Len(Foobar) :
                input = Explicit(SubSeq(Foobar, 1, k))
                    => EncodedText = Explicit(VectorTexts[k + 1])

\* C2: for a non-empty input, in every dialect, the count SCBase64Decode
\* returns is less than the input length, the condition of the assertion
\* (num_decoded >= len as u32) is false, and nothing is stored past the
\* output buffer, which is as long as the input.
C2_CountBelowLen ==
    (entry = "SCBase64Decode" /\ BufLen(text) # Zero)
        => /\ WLess(count, BufLen(text))
           /\ ~bug_on
           /\ WLeq(BufLen(decoded), BufLen(text))

\* C3: with no null pointer, the encoder returns SC_BASE64_OVERFLOW exactly
\* when the encoded length plus 1 exceeds the declared capacity, and then
\* it has written nothing to the output buffer and *output_len is as the
\* caller left it.
C3_Overflow ==
    EncodeReturned =>
        LET n == EncodedLen(BufLen(input), mode # "SCBase64ModeNoPad")
        IN  /\ WLess(cap, WAdd(n, One)) <=> (ret = SC_BASE64_OVERFLOW)
            /\ ret = SC_BASE64_OVERFLOW => (output = NoBytes /\ output_len = cap)

\* A 100-byte input with a declared capacity of 10.
C3_Witness ==
    /\ EncodeReturned
    /\ BufLen(input) = Wide(100)
    /\ cap = Wide(10)
    /\ ret = SC_BASE64_OVERFLOW
    /\ output = NoBytes

\* C4: when the encoder returns SC_BASE64_OK, the output holds the text of
\* the input (unpadded in SCBase64ModeNoPad, padded otherwise), then a zero
\* byte, and nothing after it; *output_len is the length of the text; and
\* what was written is within the declared capacity.
C4_EncodeOk ==
    (EncodeReturned /\ ret = SC_BASE64_OK) =>
        LET padded == mode # "SCBase64ModeNoPad"
            n == EncodedLen(BufLen(input), padded)
        IN  /\ output_len = n
            /\ BufLen(output) = WAdd(n, One)
            /\ WLeq(BufLen(output), cap)
            /\ output = AppendByte(EncodedText, 0)
            /\ EncodedText = EncodeBuf(input, padded)
            /\ \A c \in Cells(EncodedText) : IsSlot(c)
            /\ ~padded => PAD_BYTE \notin Cells(EncodedText)
            /\ padded => WModSmall(n, 4) = 0
            /\ DecodeSliceBuf(EncodedText, IF padded THEN "canonical" ELSE "none")
                  = [ok |-> TRUE, len |-> BufLen(input), stored |-> input]

\* "fo" encoded without padding into a buffer with room to spare.
C4_Witness ==
    /\ EncodeReturned
    /\ ret = SC_BASE64_OK
    /\ mode = "SCBase64ModeNoPad"
    /\ input = Explicit(SubSeq(Foobar, 1, 2))
    /\ output_len = Wide(3)
    /\ WLess(Wide(5), cap)

\* C5: SCBase64EncodeBufferSize(n) is at least the encoded length of n bytes
\* plus 1, so the encoder called with that capacity does not return
\* SC_BASE64_OVERFLOW.  Stated for the lengths whose encoded length plus 1
\* c_ulong can hold.
C5_SizeSuffices ==
    (size.value # Zero /\ WLeq(ExactBufferSize(len), ULONG_MAX))
        => /\ WLess(EncodedLen(len, TRUE), size.value)
           /\ pc = "encoded" => ret # SC_BASE64_OVERFLOW

\* C6: SCBase64EncodeBufferSize(n) is exactly ceil(n / 3) * 4 + 1.  Stated
\* for the lengths on which its arithmetic does not overflow.
C6_ExactSize ==
    (SizeReturned /\ ~size.overflow) => size.value = ExactBufferSize(len)

\* C9: where ceil(len / 3) * 4 + 1 fits c_ulong, no intermediate value of
\* SCBase64EncodeBufferSize passes ULONG_MAX, and the size returned is at
\* least the encoded length plus 1.
C9_NoIntermediateOverflow ==
    ((SizeReturned \/ pc = "aborted") /\ entry = "SCBase64EncodeBufferSize"
        /\ WLeq(ExactBufferSize(len), ULONG_MAX))
        => /\ ~size.overflow
           /\ SizeReturned => WLess(EncodedLen(len, TRUE), size.value)

\* C7: in SCBase64ModeRFC4648 the decoding ends at the first byte outside
\* the alphabet.  What follows that byte changes neither the count nor the
\* bytes; the count is no more than the characters before it hold; the
\* output past the count is not written; and "Zm 9v", "Zm$9v",
\* "Zm 9v Ym Fy", "Zm$9vYm.Fy" all decode to "f".  A long text that begins
\* with such a byte decodes to nothing.
C7_StopAtFirstInvalid ==
    /\ (DecodeReturned /\ dmode = "SCBase64ModeRFC4648" /\ IsExplicit(text)
            /\ HasInvalid(text.tail)) =>
          /\ nApp > 0 => (count = base.count /\ decoded = base.bytes)
          /\ ToInt(count) <= (6 * (FirstInvalid(text.tail) - 1)) \div 8
          /\ UntouchedAfter(count)
          /\ text.tail \in {ZmSpace9v, ZmDollar9v, ZmSpaced, ZmDollar}
                => Reported = <<102>>
    /\ (DecodeReturned /\ dmode = "SCBase64ModeRFC4648" /\ ~IsExplicit(text)
            /\ ~IsSlot(text.pat[1])) =>
          (count = Zero /\ decoded = NoBytes)

\* "Zm " was decoded to "f", and then "Zm Z" was.
C7_Witness ==
    /\ DecodeReturned
    /\ dmode = "SCBase64ModeRFC4648"
    /\ base.text = Explicit(<<90, 109, 32>>)
    /\ text = Explicit(<<90, 109, 32, 90>>)
    /\ nApp = 1
    /\ Reported = <<102>>

\* C8: in SCBase64ModeRFC2045 bytes outside the alphabet are skipped.  A
\* canonical text with such bytes inserted anywhere decodes to the count and
\* the bytes of the text itself, and "Zm 9v Ym Fy" and "Zm$9vYm.Fy" decode
\* to "foobar".
C8_SkipInvalid ==
    (DecodeReturned /\ dmode = "SCBase64ModeRFC2045" /\ IsExplicit(text)) =>
        /\ nIns > 0 => (count = base.count /\ decoded = base.bytes)
        /\ text.tail \in {ZmSpaced, ZmDollar} => Reported = Foobar

\* "Zm9vYmFy" was decoded, and then again with two bytes inserted.
C8_Witness ==
    /\ DecodeReturned
    /\ dmode = "SCBase64ModeRFC2045"
    /\ base.text = Explicit(VectorTexts[7])
    /\ nIns = 2
    /\ Len(text.tail) = 10
    /\ Reported = Foobar

\* C10: in the three dialects handed to the canonical decoder, the count is
\* 0 whenever that decoder rejects the input: on a byte outside the
\* alphabet, on a padding character under SCBase64ModeNoPad or before the
\* end, on a length that is no multiple of 4 under SCBase64ModeStrict.  A
\* count other than 0 is the length of the whole input decoded, as a u32.
C10_AllOrNothing ==
    (DecodeReturned /\ dmode \in DelegatedModes /\ BufLen(text) # Zero) =>
        LET symbols == CountOf(text, InAlphabet)
            padAt == {i \in 1..Len(text.tail) : text.tail[i] = PAD_BYTE}
            symAt == {i \in 1..Len(text.tail) : InAlphabet(text.tail[i])}
        IN  /\ ~DecodeSliceBuf(text, PadModeOf(dmode)).ok => count = Zero
            /\ (\E c \in Cells(text) : ~IsSlot(c)) => count = Zero
            /\ (dmode = "SCBase64ModeNoPad" /\ PAD_BYTE \in Cells(text))
                  => count = Zero
            /\ (dmode = "SCBase64ModeStrict" /\ WModSmall(BufLen(text), 4) # 0)
                  => count = Zero
            /\ (\E i \in padAt : \E j \in symAt : i < j) => count = Zero
            /\ (~IsExplicit(text) /\ PAD_BYTE \in Cells(Explicit(text.pat)))
                  => count = Zero
            /\ count # Zero =>
                  /\ \A c \in Cells(text) : IsSlot(c)
                  /\ count = AsU32(WDivSmall(WMulSmall(symbols, 6), 8))

\* "Zm9vYg" in SCBase64ModeStrict: the decoder stored "foo" and then
\* rejected the unpadded tail; the count is 0.
C10_Witness ==
    /\ DecodeReturned
    /\ dmode = "SCBase64ModeStrict"
    /\ text = Explicit(<<90, 109, 57, 118, 89, 103>>)
    /\ decoded = Explicit(<<102, 111, 111>>)
    /\ count = Zero

====
